---- MODULE Spec2Model ----
(***************************************************************************)
(* Model of the Movie Recommendation Engine agent loop (src/main.py).      *)
(*                                                                         *)
(* A text is a sequence of strings: the tool keywords and the category     *)
(* keys are spelled character by character (the tool folds, trims and      *)
(* searches them), every other text is a sequence of fragments that an     *)
(* f-string concatenates.  An Optional[str] field is a record              *)
(* [isNone, val].                                                          *)
(***************************************************************************)
EXTENDS Naturals, Integers, Sequences, FiniteSets, TLC

VARIABLES messages, chat_history, pc, parsed, error, turnBase, displayBase,
          steps, calls

vars == <<messages, chat_history, pc, parsed, error, turnBase, displayBase,
          steps, calls>>

\* Longest transcript (st.session_state.messages) the model explores.
MaxTranscript == 6

-----------------------------------------------------------------------------
(* Optional[str] and str()                                                 *)

None == [isNone |-> TRUE, val |-> <<>>]

Some(v) == [isNone |-> FALSE, val |-> v]

\* What an f-string "{x}" renders for an Optional[str]: the text itself, or
\* the four letters None.
Str(o) == IF o.isNone THEN <<"N","o","n","e">> ELSE o.val

\* Python's `needle in haystack` on strings.
IsSubstring(needle, haystack) ==
    \E i \in 0..(Len(haystack) - Len(needle)) :
        SubSeq(haystack, i + 1, i + Len(needle)) = needle

Upper == <<"A","B","C","D","E","F","G","H","I","J","K","L","M",
           "N","O","P","Q","R","S","T","U","V","W","X","Y","Z">>

LowerOf == <<"a","b","c","d","e","f","g","h","i","j","k","l","m",
             "n","o","p","q","r","s","t","u","v","w","x","y","z">>

LowerChar(c) ==
    IF \E i \in 1..26 : Upper[i] = c
    THEN LowerOf[CHOOSE i \in 1..26 : Upper[i] = c]
    ELSE c

\* str.lower()
lower(s) == [i \in 1..Len(s) |-> LowerChar(s[i])]

Whitespace == {" ", "\t", "\n"}

RECURSIVE lstrip(_)
lstrip(s) ==
    IF s # <<>> /\ Head(s) \in Whitespace THEN lstrip(Tail(s)) ELSE s

RECURSIVE rstrip(_)
rstrip(s) ==
    IF s # <<>> /\ s[Len(s)] \in Whitespace
    THEN rstrip(SubSeq(s, 1, Len(s) - 1))
    ELSE s

\* str.strip()
strip(s) == rstrip(lstrip(s))

-----------------------------------------------------------------------------
(* The mock metadata tool                                                  *)

SciFi == <<"s","c","i","-","f","i">>

Action == <<"a","c","t","i","o","n">>

Comedy == <<"c","o","m","e","d","y">>

\* The keys of mock_movies in insertion (iteration) order.
mock_keys == <<SciFi, Action, Comedy>>

\* The titles of each category, in order; a title stands for its whole entry.
mock_movies(key) ==
    IF key = SciFi
    THEN <<"Space Odyssey 2001", "Robot Detective", "The Infinite Loop">>
    ELSE IF key = Action
    THEN <<"The Fast Getaway", "Mountain Commandos">>
    ELSE IF key = Comedy
    THEN <<"The Office Party", "Wacky Neighbors">>
    ELSE <<>>

\* json.dumps of a list of entries: a bracketed array.
json_dumps(movies) == <<"[">> \o movies \o <<"]">>

\* The categories the fallback scan accepts, as indices into mock_keys.
FallbackHits(keyword, preference_keyword) ==
    {i \in 1..Len(mock_keys) :
        \/ IsSubstring(mock_keys[i], keyword)
        \/ IsSubstring(preference_keyword, mock_keys[i])}

Min(S) == CHOOSE m \in S : \A n \in S : m <= n

\* The not-found text (without its leading warning sign); it carries the
\* keyword as given, not the normalised one.
NotFoundText(preference_keyword) ==
    <<"Could not find movies matching: ">> \o preference_keyword
        \o <<". Try 'sci-fi', 'action', or 'comedy'.">>

\* fetch_movie_metadata on a str argument.
fetch_movie_metadata(preference_keyword) ==
    LET keyword == strip(lower(preference_keyword))
        exact   == {i \in 1..Len(mock_keys) : mock_keys[i] = keyword}
        hits    == FallbackHits(keyword, preference_keyword)
    IN  IF exact # {}
        THEN json_dumps(mock_movies(mock_keys[Min(exact)]))
        ELSE IF hits # {}
        THEN json_dumps(mock_movies(mock_keys[Min(hits)]))
        ELSE NotFoundText(preference_keyword)

\* The call raises AttributeError when the argument is None (None.lower()).
fetch_raises(tool_input) == tool_input.isNone

FetchName ==
    <<"f","e","t","c","h","_","m","o","v","i","e","_",
      "m","e","t","a","d","a","t","a">>

AliasName == <<"g","e","t","_","m","o","v","i","e","_","d","a","t","a">>

\* The registry: tool name -> function.
available_tools ==
    [n \in {FetchName, AliasName} |-> "fetch_movie_metadata"]

\* `tool_name in available_tools` (None is hashable and is not a key).
InRegistry(tool_name) ==
    ~tool_name.isNone /\ tool_name.val \in DOMAIN available_tools

\* A dispatch that hands the tool a normalised keyword.
CallTool_normalises(tool_name, tool_input) ==
    IF available_tools[tool_name.val] = "fetch_movie_metadata"
    THEN fetch_movie_metadata(strip(lower(tool_input.val)))
    ELSE <<>>

\* available_tools[tool_name](tool_input) for a str tool_input.
CallTool(tool_name, tool_input) ==
    IF available_tools[tool_name.val] = "fetch_movie_metadata"
    THEN fetch_movie_metadata(tool_input.val)
    ELSE <<>>

\* An error text that forgets to name the tool.
ToolNotFoundText_anonymous(tool_name) ==
    <<"E","r","r","o","r",":"," ","T","o","o","l"," ">>
        \o <<" ","n","o","t"," ","f","o","u","n","d",".">>

\* f"Error: Tool {tool_name} not found."
ToolNotFoundText(tool_name) ==
    <<"E","r","r","o","r",":"," ","T","o","o","l"," ">>
        \o Str(tool_name)
        \o <<" ","n","o","t"," ","f","o","u","n","d",".">>

-----------------------------------------------------------------------------
(* Transcript and display entries                                          *)

SYSTEM_PROMPT == <<"You are the Movie Recommendation Engine (MRE).">>

\* One transcript entry {role, content}.  The content of a system or user
\* entry is a text; of an assistant entry the raw step record; of a developer
\* entry the serialised observation {step, tool, input, output}.
Message(role, text, step, content, tool, input, output) ==
    [role |-> role, text |-> text, step |-> step, content |-> content,
     tool |-> tool, input |-> input, output |-> output]

TextMessage(role, text) ==
    Message(role, Some(text), "", None, None, None, None)

SystemSeed == TextMessage("system", SYSTEM_PROMPT)

AssistantMessage(p) ==
    Message("assistant", None, p.step, p.content, p.tool, p.input, None)

ObservationMessage(tool_name, tool_input, tool_response) ==
    Message("developer", None, "OBSERVE", None, tool_name, tool_input,
            Some(tool_response))

\* One chat_history tuple (role, msg).
Entry(role, msg) == [role |-> role, msg |-> msg]

\* The display prefixes, without the emoji each one starts with.
StartPrefix == "MRE Initialized: "

PlanPrefix == "Planning: "

ToolPrefix == "Fetching data using keyword: "

OutputPrefix == "**MRE Recommendation:** "

-----------------------------------------------------------------------------
(* What the model may return                                               *)

\* MyOutputFormat
Step(kind, content, tool, input) ==
    [step |-> kind, content |-> content, tool |-> tool, input |-> input]

NoStep == Step("", None, None, None)

Queries == {<<"Suggest a sci-fi movie under 150 minutes">>,
            <<"something funny">>}

Contents == {Some(<<"some text">>)}

ToolNames == {Some(FetchName),
              Some(AliasName),
              Some(<<"s","e","a","r","c","h","_","w","e","b">>),
              None}

ToolInputs == {Some(SciFi),
               Some(<<" ","A","C","T","I","O","N"," ">>),
               Some(<<"h","o","r","r","o","r">>),
               Some(<<"C","o","m">>),
               Some(<<>>),
               None}

PlainKinds == {"START", "PLAN", "OUTPUT", "OBSERVE", "SUMMARY"}

ModelSteps ==
    {Step(k, c, None, None) : k \in PlainKinds, c \in Contents}
        \cup {Step("OUTPUT", None, None, None)}
        \cup {Step("TOOL", None, t, i) : t \in ToolNames, i \in ToolInputs}

\* Transcript entries one iteration appends for a step.
Growth(p) == IF p.step = "TOOL" THEN 2 ELSE 1

-----------------------------------------------------------------------------
(* The session                                                             *)

\* The script is not running: a fresh session, after a reset, after a turn.
Resting == {"IDLE", "CLEARED", "DONE", "ABORTED"}

Init ==
    /\ messages = <<SystemSeed>>
    /\ chat_history = <<>>
    /\ pc = "IDLE"
    /\ parsed = NoStep
    /\ error = "none"
    /\ turnBase = 0
    /\ displayBase = 0
    /\ steps = <<>>
    /\ calls = 0

\* A reset that can be applied while the loop of a turn is running.
Reset_anytime ==
    /\ messages' = <<SystemSeed>>
    /\ chat_history' = <<>>
    /\ pc' = "CLEARED"
    /\ parsed' = NoStep
    /\ error' = "none"
    /\ turnBase' = 0
    /\ displayBase' = 0
    /\ steps' = <<>>
    /\ calls' = 0

\* A reset that reseeds the transcript but keeps the display log.
Reset_keepsDisplay ==
    /\ pc \in Resting
    /\ messages' = <<SystemSeed>>
    /\ chat_history' = chat_history
    /\ pc' = "CLEARED"
    /\ parsed' = NoStep
    /\ error' = "none"
    /\ turnBase' = 0
    /\ displayBase' = 0
    /\ steps' = <<>>
    /\ calls' = 0

\* A reset that clears the display log but keeps the transcript.
Reset_keepsTranscript ==
    /\ pc \in Resting
    /\ messages' = messages
    /\ chat_history' = <<>>
    /\ pc' = "CLEARED"
    /\ parsed' = NoStep
    /\ error' = "none"
    /\ turnBase' = 0
    /\ displayBase' = 0
    /\ steps' = <<>>
    /\ calls' = 0

\* The "Clear Recommendations" button: reseed, clear, rerun.
Reset ==
    /\ pc \in Resting
    /\ messages' = <<SystemSeed>>
    /\ chat_history' = <<>>
    /\ pc' = "CLEARED"
    /\ parsed' = NoStep
    /\ error' = "none"
    /\ turnBase' = 0
    /\ displayBase' = 0
    /\ steps' = <<>>
    /\ calls' = 0

\* A turn that starts from a fresh transcript instead of the session's.
Submit_reseeds(user_query) ==
    /\ pc \in Resting
    /\ Len(messages) + 2 <= MaxTranscript
    /\ messages' = <<SystemSeed, TextMessage("user", user_query)>>
    /\ chat_history' = Append(chat_history, Entry("user", user_query))
    /\ pc' = "AWAIT_MODEL"
    /\ parsed' = NoStep
    /\ error' = "none"
    /\ turnBase' = 1
    /\ displayBase' = Len(chat_history)
    /\ steps' = <<>>
    /\ calls' = 0

\* A non-empty chat input starts a turn.
Submit(user_query) ==
    /\ pc \in Resting
    /\ Len(messages) + 2 <= MaxTranscript
    /\ messages' = Append(messages, TextMessage("user", user_query))
    /\ chat_history' = Append(chat_history, Entry("user", user_query))
    /\ pc' = "AWAIT_MODEL"
    /\ parsed' = NoStep
    /\ error' = "none"
    /\ turnBase' = Len(messages)
    /\ displayBase' = Len(chat_history)
    /\ steps' = <<>>
    /\ calls' = 0

\* A loop that records the raw text only in the branches it recognises.
ModelReturns_skipsUnknown(p) ==
    /\ pc = "AWAIT_MODEL"
    /\ Len(messages) + Growth(p) <= MaxTranscript
    /\ messages' = IF p.step \in {"START", "PLAN", "TOOL", "OUTPUT"}
                   THEN Append(messages, AssistantMessage(p))
                   ELSE messages
    /\ parsed' = p
    /\ steps' = Append(steps, p)
    /\ calls' = calls + 1
    /\ pc' = "HANDLE_STEP"
    /\ UNCHANGED <<chat_history, error, turnBase, displayBase>>

\* client.chat.completions.parse returns one step; its raw text is appended.
ModelReturns(p) ==
    /\ pc = "AWAIT_MODEL"
    /\ Len(messages) + Growth(p) <= MaxTranscript
    /\ messages' = Append(messages, AssistantMessage(p))
    /\ parsed' = p
    /\ steps' = Append(steps, p)
    /\ calls' = calls + 1
    /\ pc' = "HANDLE_STEP"
    /\ UNCHANGED <<chat_history, error, turnBase, displayBase>>

\* A failure handler that rolls the turn's entries back.
ModelInvocationFailure_rollsBack ==
    /\ pc = "AWAIT_MODEL"
    /\ calls' = calls + 1
    /\ pc' = "ABORTED"
    /\ error' = "ModelInvocationFailure"
    /\ messages' = SubSeq(messages, 1, turnBase)
    /\ UNCHANGED <<chat_history, parsed, turnBase, displayBase, steps>>

\* client.chat.completions.parse raises; nothing catches it.
ModelInvocationFailure ==
    /\ pc = "AWAIT_MODEL"
    /\ calls' = calls + 1
    /\ pc' = "ABORTED"
    /\ error' = "ModelInvocationFailure"
    /\ UNCHANGED <<messages, chat_history, parsed, turnBase, displayBase,
                   steps>>

HandleStart ==
    /\ pc = "HANDLE_STEP"
    /\ parsed.step = "START"
    /\ chat_history' = Append(chat_history,
            Entry("assistant", <<StartPrefix>> \o Str(parsed.content)))
    /\ pc' = "AWAIT_MODEL"
    /\ UNCHANGED <<messages, parsed, error, turnBase, displayBase, steps,
                   calls>>

\* A PLAN branch with a step budget: the third step of a turn ends it.
HandlePlan_budget ==
    /\ pc = "HANDLE_STEP"
    /\ parsed.step = "PLAN"
    /\ chat_history' = Append(chat_history,
            Entry("assistant", <<PlanPrefix>> \o Str(parsed.content)))
    /\ pc' = IF calls >= 3 THEN "DONE" ELSE "AWAIT_MODEL"
    /\ UNCHANGED <<messages, parsed, error, turnBase, displayBase, steps,
                   calls>>

HandlePlan ==
    /\ pc = "HANDLE_STEP"
    /\ parsed.step = "PLAN"
    /\ chat_history' = Append(chat_history,
            Entry("assistant", <<PlanPrefix>> \o Str(parsed.content)))
    /\ pc' = "AWAIT_MODEL"
    /\ UNCHANGED <<messages, parsed, error, turnBase, displayBase, steps,
                   calls>>

\* A TOOL branch that goes round without recording an unknown tool's error.
HandleTool_dropsNotFound ==
    /\ pc = "HANDLE_STEP"
    /\ parsed.step = "TOOL"
    /\ LET tool_name  == parsed.tool
           tool_input == parsed.input
       IN  /\ chat_history' = Append(chat_history,
                   Entry("assistant", <<ToolPrefix>> \o Str(tool_input)))
           /\ IF InRegistry(tool_name) /\ fetch_raises(tool_input)
              THEN /\ pc' = "ABORTED"
                   /\ error' = "AttributeError"
                   /\ UNCHANGED messages
              ELSE /\ messages' =
                          IF InRegistry(tool_name)
                          THEN Append(messages,
                                   ObservationMessage(tool_name, tool_input,
                                       CallTool(tool_name, tool_input)))
                          ELSE messages
                   /\ pc' = "AWAIT_MODEL"
                   /\ UNCHANGED error
    /\ UNCHANGED <<parsed, turnBase, displayBase, steps, calls>>

HandleTool ==
    /\ pc = "HANDLE_STEP"
    /\ parsed.step = "TOOL"
    /\ LET tool_name  == parsed.tool
           tool_input == parsed.input
       IN  /\ chat_history' = Append(chat_history,
                   Entry("assistant", <<ToolPrefix>> \o Str(tool_input)))
           /\ IF InRegistry(tool_name) /\ fetch_raises(tool_input)
              THEN /\ pc' = "ABORTED"
                   /\ error' = "AttributeError"
                   /\ UNCHANGED messages
              ELSE /\ messages' = Append(messages,
                          ObservationMessage(tool_name, tool_input,
                              IF InRegistry(tool_name)
                              THEN CallTool(tool_name, tool_input)
                              ELSE ToolNotFoundText(tool_name)))
                   /\ pc' = "AWAIT_MODEL"
                   /\ UNCHANGED error
    /\ UNCHANGED <<parsed, turnBase, displayBase, steps, calls>>

\* An OUTPUT branch that also records the final answer as a plain entry.
HandleOutput_recordsAnswer ==
    /\ pc = "HANDLE_STEP"
    /\ parsed.step = "OUTPUT"
    /\ chat_history' = Append(chat_history,
            Entry("assistant", <<OutputPrefix>> \o Str(parsed.content)))
    /\ messages' = Append(messages,
            TextMessage("assistant", Str(parsed.content)))
    /\ pc' = "DONE"
    /\ UNCHANGED <<parsed, error, turnBase, displayBase, steps, calls>>

HandleOutput ==
    /\ pc = "HANDLE_STEP"
    /\ parsed.step = "OUTPUT"
    /\ chat_history' = Append(chat_history,
            Entry("assistant", <<OutputPrefix>> \o Str(parsed.content)))
    /\ pc' = "DONE"
    /\ UNCHANGED <<messages, parsed, error, turnBase, displayBase, steps,
                   calls>>

\* A loop whose fall-through leaves the loop instead of going round.
HandleOther_breaks ==
    /\ pc = "HANDLE_STEP"
    /\ parsed.step \notin {"START", "PLAN", "TOOL", "OUTPUT"}
    /\ pc' = "DONE"
    /\ UNCHANGED <<messages, chat_history, parsed, error, turnBase,
                   displayBase, steps, calls>>

\* A fall-through that shows the unrecognised step.
HandleOther_displays ==
    /\ pc = "HANDLE_STEP"
    /\ parsed.step \notin {"START", "PLAN", "TOOL", "OUTPUT"}
    /\ chat_history' = Append(chat_history,
            Entry("assistant", Str(parsed.content)))
    /\ pc' = "AWAIT_MODEL"
    /\ UNCHANGED <<messages, parsed, error, turnBase, displayBase, steps,
                   calls>>

\* No branch matches (OBSERVE or any other string): the while loop goes round.
HandleOther ==
    /\ pc = "HANDLE_STEP"
    /\ parsed.step \notin {"START", "PLAN", "TOOL", "OUTPUT"}
    /\ pc' = "AWAIT_MODEL"
    /\ UNCHANGED <<messages, chat_history, parsed, error, turnBase,
                   displayBase, steps, calls>>

HandleStep ==
    HandleStart \/ HandlePlan \/ HandleTool \/ HandleOutput \/ HandleOther

Next ==
    \/ Reset
    \/ \E q \in Queries : Submit(q)
    \/ \E p \in ModelSteps : ModelReturns(p)
    \/ ModelInvocationFailure
    \/ HandleStart
    \/ HandlePlan
    \/ HandleTool
    \/ HandleOutput
    \/ HandleOther

Spec == Init /\ [][Next]_vars

-----------------------------------------------------------------------------
(* The tool on its own: a turn whose first step is a TOOL step naming a    *)
(* registered tool, over a bounded set of keywords.                        *)

\* Longest keyword built from KeywordAlphabet.
MaxKeyword == 3

KeywordAlphabet == {"a", "c", "o", "y", "A", " ", "x"}

ShortKeywords ==
    UNION {[1..n -> KeywordAlphabet] : n \in 0..MaxKeyword}

LongKeywords ==
    {SciFi,
     <<"S","C","I","-","F","I">>,
     <<" ","A","c","t","i","o","n","\t">>,
     <<"c","o","m","e","d","y"," ","a","c","t","i","o","n">>,
     <<"a"," ","s","c","i","-","f","i"," ","f","i","l","m">>,
     <<"h","o","r","r","o","r">>,
     <<"C","o","m">>,
     <<"f","i">>}

Keywords == ShortKeywords \cup LongKeywords

\* The loop has appended the user message and the raw text of a TOOL step.
FetchInit ==
    \E q \in Queries, n \in {FetchName, AliasName}, k \in Keywords :
        LET p == Step("TOOL", None, Some(n), Some(k))
        IN  /\ q = <<"something funny">>
            /\ messages = <<SystemSeed, TextMessage("user", q),
                            AssistantMessage(p)>>
            /\ chat_history = <<Entry("user", q)>>
            /\ pc = "HANDLE_STEP"
            /\ parsed = p
            /\ error = "none"
            /\ turnBase = 1
            /\ displayBase = 0
            /\ steps = <<p>>
            /\ calls = 1

FetchNext == HandleTool

SpecFetch == FetchInit /\ [][FetchNext]_vars

-----------------------------------------------------------------------------
(* Properties                                                              *)

Last(s) == s[Len(s)]

IsPrefix(s, t) == Len(s) <= Len(t) /\ SubSeq(t, 1, Len(s)) = s

\* The transcript entries of the current turn, the user message first.
TurnEntries == SubSeq(messages, turnBase + 1, Len(messages))

Roles(ms) == [i \in 1..Len(ms) |-> ms[i].role]

Kinds(ss) == [i \in 1..Len(ss) |-> ss[i].step]

NumTool(ss) == Cardinality({i \in 1..Len(ss) : ss[i].step = "TOOL"})

\* The roles a sequence of fully handled steps leaves in the transcript.
RECURSIVE ExpectedRoles(_)
ExpectedRoles(ss) ==
    IF ss = <<>> THEN <<>>
    ELSE (IF Head(ss).step = "TOOL"
          THEN <<"assistant", "developer">>
          ELSE <<"assistant">>) \o ExpectedRoles(Tail(ss))

\* C1: a turn reaches DONE only by the step that handles an OUTPUT step; the
\* step that handles a step of any other kind (START, PLAN, TOOL, OBSERVE,
\* an unrecognised kind) never reaches DONE, and when the handler returns it
\* leaves the loop waiting for the next model invocation.
C1_DoneOnlyAfterOutput ==
    [][ /\ (pc' = "DONE" /\ pc # "DONE")
            => (pc = "HANDLE_STEP" /\ parsed.step = "OUTPUT")
        /\ (pc = "HANDLE_STEP" /\ parsed.step # "OUTPUT")
            => (pc' # "DONE" /\ (error' = "none" => pc' = "AWAIT_MODEL"))
      ]_vars

C1_Witness ==
    /\ pc = "DONE"
    /\ Kinds(steps) = <<"OBSERVE", "SUMMARY", "OUTPUT">>

\* C2: when a turn that started on a transcript of length L ends, after n
\* steps of which t are TOOL steps and the last is the only OUTPUT, it has
\* made exactly n model invocations and the transcript has L + 1 + n + t
\* entries: the user message, then per step one assistant entry followed by
\* one developer entry exactly for the TOOL steps.  PLAN, TOOL, OUTPUT on a
\* fresh session: 3 invocations, 6 entries.
C2_TurnLength ==
    pc = "DONE" =>
        /\ steps # <<>>
        /\ Last(steps).step = "OUTPUT"
        /\ \A i \in 1..(Len(steps) - 1) : steps[i].step # "OUTPUT"
        /\ calls = Len(steps)
        /\ Len(messages) = turnBase + 1 + Len(steps) + NumTool(steps)
        /\ Roles(TurnEntries) = <<"user">> \o ExpectedRoles(steps)
        /\ (turnBase = 1 /\ Kinds(steps) = <<"PLAN", "TOOL", "OUTPUT">>)
               => (calls = 3 /\ Len(messages) = 6)

C2_Witness ==
    /\ pc = "DONE"
    /\ turnBase = 1
    /\ Kinds(steps) = <<"PLAN", "TOOL", "OUTPUT">>
    /\ Len(messages) = 6

\* The assistant entries of the current turn, in transcript order.
RECURSIVE AssistantsOf(_)
AssistantsOf(ms) ==
    IF ms = <<>> THEN <<>>
    ELSE (IF Head(ms).role = "assistant" THEN <<Head(ms)>> ELSE <<>>)
             \o AssistantsOf(Tail(ms))

\* C3: the assistant entries of a turn are the steps received, in the order
\* received; whenever the loop is about to invoke the model after a TOOL step
\* the last transcript entry is that step's developer observation (its tool
\* and input, and an output) and the entry before it is that step's assistant
\* entry; the model is never invoked on a transcript that ends with the
\* assistant entry of a TOOL step.
C3_ObservationBeforeNextCall ==
    /\ AssistantsOf(TurnEntries)
           = [i \in 1..Len(steps) |-> AssistantMessage(steps[i])]
    /\ (pc = "AWAIT_MODEL" /\ steps # <<>> /\ Last(steps).step = "TOOL")
           => /\ Len(messages) >= 2
              /\ Last(messages).role = "developer"
              /\ Last(messages).step = "OBSERVE"
              /\ Last(messages).tool = Last(steps).tool
              /\ Last(messages).input = Last(steps).input
              /\ ~Last(messages).output.isNone
              /\ messages[Len(messages) - 1] = AssistantMessage(Last(steps))
    /\ pc = "AWAIT_MODEL"
           => ~(Last(messages).role = "assistant"
                    /\ Last(messages).step = "TOOL")

C3_Witness ==
    /\ pc = "AWAIT_MODEL"
    /\ Len(steps) = 2
    /\ Last(steps).step = "TOOL"
    /\ ~InRegistry(Last(steps).tool)
    /\ Last(messages).role = "developer"

\* C4: a reset leaves the transcript with exactly one entry, the system seed,
\* and the display log empty, whatever they were before.
C4_ResetReseeds ==
    [][Reset => (/\ Len(messages') = 1
                 /\ messages'[1] = SystemSeed
                 /\ Len(chat_history') = 0)]_vars

C4_Witness ==
    /\ pc = "CLEARED"
    /\ messages = <<SystemSeed>>
    /\ chat_history = <<>>

NotFoundMarker == <<"n","o","t"," ","f","o","u","n","d">>

\* C5: handling a TOOL step whose tool is not a registry key (a null tool
\* included) raises nothing: it appends one developer observation whose
\* output contains "not found" and the tool's name, and the loop goes on to
\* the next model invocation.
C5_UnknownToolObserved ==
    [][(pc = "HANDLE_STEP" /\ parsed.step = "TOOL"
            /\ ~InRegistry(parsed.tool))
        => /\ pc' = "AWAIT_MODEL"
           /\ error' = "none"
           /\ Len(messages') = Len(messages) + 1
           /\ IsPrefix(messages, messages')
           /\ Last(messages').role = "developer"
           /\ Last(messages').tool = parsed.tool
           /\ ~Last(messages').output.isNone
           /\ IsSubstring(NotFoundMarker, Last(messages').output.val)
           /\ IsSubstring(Str(parsed.tool), Last(messages').output.val)
      ]_vars

C5_Witness ==
    /\ pc = "AWAIT_MODEL"
    /\ steps # <<>>
    /\ Last(steps).step = "TOOL"
    /\ Last(steps).tool = None
    /\ Last(messages).role = "developer"
    /\ IsSubstring(NotFoundMarker, Last(messages).output.val)

\* C6: handling a TOOL step never raises, whatever its tool and input are (a
\* registered tool with a null input included): it appends one developer
\* observation and the loop goes on to the next model invocation.
C6_DispatchNeverThrows ==
    [][(pc = "HANDLE_STEP" /\ parsed.step = "TOOL")
        => /\ error' = "none"
           /\ pc' = "AWAIT_MODEL"
           /\ Len(messages') = Len(messages) + 1
           /\ Last(messages').role = "developer"
      ]_vars

StringInputs == {i \in ToolInputs : ~i.isNone}

\* C7: handling a TOOL step that names a registered tool and has a string
\* input appends the observation {OBSERVE, tool, input, output} with the
\* step's own tool and input and with the output fetch_movie_metadata gives
\* for that input; the two registered names give the same output.
C7_DispatchIsDirectCall ==
    /\ [](\A i \in StringInputs :
            CallTool(Some(FetchName), i) = CallTool(Some(AliasName), i))
    /\ [][(pc = "HANDLE_STEP" /\ parsed.step = "TOOL"
               /\ InRegistry(parsed.tool) /\ ~parsed.input.isNone)
           => messages' = Append(messages,
                  ObservationMessage(parsed.tool, parsed.input,
                      fetch_movie_metadata(parsed.input.val)))
         ]_vars

C7_Witness ==
    /\ pc = "AWAIT_MODEL"
    /\ steps # <<>>
    /\ Last(steps).step = "TOOL"
    /\ Last(steps).tool = Some(AliasName)
    /\ Last(steps).input = Some(<<"C","o","m">>)
    /\ Last(messages).role = "developer"
    /\ Last(messages).output
           = Some(NotFoundText(<<"C","o","m">>))

\* C8: the first transcript entry is always the system seed and no other
\* entry has the system role; every step that is not a reset leaves the old
\* transcript as a prefix of the new one.
C8_SeedFirstAppendOnly ==
    /\ [](/\ Len(messages) >= 1
          /\ messages[1] = SystemSeed
          /\ \A i \in 2..Len(messages) : messages[i].role # "system")
    /\ [][Reset \/ IsPrefix(messages, messages')]_vars

C8_Witness ==
    /\ pc = "AWAIT_MODEL"
    /\ turnBase >= 3
    /\ messages[1] = SystemSeed
    /\ \E i \in 2..turnBase : messages[i].role = "developer"

\* C9: a failed model invocation aborts the turn and leaves the transcript as
\* it was before the call: the turn's user message and the assistant and
\* observation entries of the earlier iterations; the failed call is counted
\* once and no further invocation is made in that turn.
C9_FailureAbortsKeepsTranscript ==
    /\ [][(pc = "AWAIT_MODEL" /\ error' = "ModelInvocationFailure")
            => (/\ pc' = "ABORTED"
                /\ messages' = messages
                /\ calls' = calls + 1)
         ]_vars
    /\ [][(pc = "ABORTED")
            => (calls' = calls \/ (calls' = 0 /\ steps' = <<>>))]_vars
    /\ []((pc = "ABORTED" /\ error = "ModelInvocationFailure")
            => /\ calls = Len(steps) + 1
               /\ Len(messages) = turnBase + 1 + Len(steps) + NumTool(steps)
               /\ Roles(TurnEntries) = <<"user">> \o ExpectedRoles(steps)
               /\ messages[turnBase + 1].role = "user")

C9_Witness ==
    /\ pc = "ABORTED"
    /\ error = "ModelInvocationFailure"
    /\ Kinds(steps) = <<"PLAN", "TOOL">>
    /\ Len(messages) = turnBase + 4

\* The error entries the current turn has put in the display log.
TurnErrorEntries ==
    {i \in (displayBase + 1)..Len(chat_history) :
        chat_history[i].role = "error"}

\* C10: a turn that ends by a fatal error (a failed model invocation or a
\* fault in a handler) has put exactly one error entry in the display log,
\* and the display entries of the earlier turns are unchanged.
C10_FatalErrorDisplayed ==
    /\ [](pc = "ABORTED" => Cardinality(TurnErrorEntries) = 1)
    /\ [][(pc' = "ABORTED")
            => IsPrefix(SubSeq(chat_history, 1, displayBase),
                        chat_history')]_vars

\* The first category, in the order sci-fi, action, comedy, whose key is in
\* the normalised keyword or has the normalised keyword in it; 0 when none.
C11_Category(kw) ==
    LET n     == strip(lower(kw))
        exact == {i \in 1..Len(mock_keys) : mock_keys[i] = n}
        near  == {i \in 1..Len(mock_keys) :
                     \/ IsSubstring(mock_keys[i], n)
                     \/ IsSubstring(n, mock_keys[i])}
    IN  IF exact # {} THEN Min(exact)
        ELSE IF near # {} THEN Min(near)
        ELSE 0

\* C11: the result of the tool depends on the case-folded, trimmed keyword
\* alone: the JSON array of the category equal to it, else of the first
\* category whose key is a substring of it or has it as a substring, and only
\* when there is no such category the not-found text, which is no JSON array.
C11_FetchByNormalisedKeyword ==
    (pc = "AWAIT_MODEL" /\ Last(messages).role = "developer"
        /\ InRegistry(Last(messages).tool) /\ ~Last(messages).input.isNone)
    => LET kw  == Last(messages).input.val
           out == Last(messages).output.val
       IN  IF C11_Category(kw) # 0
           THEN out = json_dumps(mock_movies(mock_keys[C11_Category(kw)]))
           ELSE out = NotFoundText(kw) /\ Head(out) # "["

NoOutput(ss) == \A i \in 1..Len(ss) : ss[i].step # "OUTPUT"

\* C12: the loop has no step budget.  However many steps a turn has received,
\* as long as none is OUTPUT (and nothing raised) the turn is still running,
\* handling a step or about to invoke the model once more, and that
\* invocation can be made; a turn is DONE only if the model returned OUTPUT.
C12_NoStepBudget ==
    /\ (steps # <<>> /\ NoOutput(steps) /\ error = "none")
           => pc \in {"HANDLE_STEP", "AWAIT_MODEL"}
    /\ (pc = "AWAIT_MODEL" /\ Len(messages) < MaxTranscript)
           => ENABLED (\E p \in ModelSteps : ModelReturns(p))
    /\ pc = "DONE" => ~NoOutput(steps)

C12_Witness ==
    /\ pc = "AWAIT_MODEL"
    /\ Kinds(steps) = <<"START", "PLAN", "START">>
    /\ calls = 3
    /\ ENABLED (\E p \in ModelSteps : ModelReturns(p))

\* The display entries a handled step leaves: one for START, PLAN, TOOL and
\* OUTPUT, none for any other kind.
DisplayOf(p) ==
    IF p.step = "START"
    THEN <<Entry("assistant", <<StartPrefix>> \o Str(p.content))>>
    ELSE IF p.step = "PLAN"
    THEN <<Entry("assistant", <<PlanPrefix>> \o Str(p.content))>>
    ELSE IF p.step = "TOOL"
    THEN <<Entry("assistant", <<ToolPrefix>> \o Str(p.input))>>
    ELSE IF p.step = "OUTPUT"
    THEN <<Entry("assistant", <<OutputPrefix>> \o Str(p.content))>>
    ELSE <<>>

RECURSIVE ExpectedDisplay(_)
ExpectedDisplay(ss) ==
    IF ss = <<>> THEN <<>>
    ELSE DisplayOf(Head(ss)) \o ExpectedDisplay(Tail(ss))

\* The steps of the turn whose branch has run.
HandledSteps ==
    IF pc = "HANDLE_STEP" THEN SubSeq(steps, 1, Len(steps) - 1) ELSE steps

\* C13: a turn only appends to the display log; what it has appended is one
\* user entry with the user's text and then, in order, one entry for each
\* handled START, PLAN, TOOL and OUTPUT step (with the initialized, planning,
\* tool-call and final prefix) and nothing for any other step or for an
\* observation; the tool-call entry carries the step's input, and no display
\* entry contains the output of a tool.
C13_DisplayLog ==
    /\ [](pc \in {"AWAIT_MODEL", "HANDLE_STEP", "DONE", "ABORTED"}
            => SubSeq(chat_history, displayBase + 1, Len(chat_history))
                   = <<Entry("user", messages[turnBase + 1].text.val)>>
                         \o ExpectedDisplay(HandledSteps))
    /\ [](\A i \in 1..Len(chat_history), j \in 1..Len(messages) :
            messages[j].role = "developer"
                => ~IsSubstring(messages[j].output.val, chat_history[i].msg))
    /\ [][(pc \in {"AWAIT_MODEL", "HANDLE_STEP"})
            => IsPrefix(chat_history, chat_history')]_vars

C13_Witness ==
    /\ pc = "DONE"
    /\ Kinds(steps) = <<"TOOL", "OBSERVE", "OUTPUT">>
    /\ Len(chat_history) = displayBase + 3
    /\ steps[1].input = Some(SciFi)
    /\ chat_history[displayBase + 2].msg = <<ToolPrefix>> \o SciFi

InTurn == pc \in {"AWAIT_MODEL", "HANDLE_STEP"}

\* C14: from the append of a turn's user message until the turn ends, every
\* change of the transcript is an append of an assistant or developer entry
\* by the loop: no reset and no second user message is applied, the turn
\* stays the same turn, and a reset is possible only when no turn is running.
C14_LoopOwnsTranscript ==
    /\ [][InTurn
            => /\ IsPrefix(messages, messages')
               /\ \A i \in (Len(messages) + 1)..Len(messages') :
                      messages'[i].role \in {"assistant", "developer"}
               /\ turnBase' = turnBase
               /\ messages'[turnBase + 1] = messages[turnBase + 1]
               /\ pc' \notin {"IDLE", "CLEARED"}
         ]_vars
    /\ [](InTurn => ~ENABLED Reset)
    /\ [](InTurn => ~ENABLED (\E q \in Queries : Submit(q)))

C14_Witness ==
    /\ pc = "HANDLE_STEP"
    /\ turnBase = 3
    /\ Len(messages) = 5
    /\ messages[4].role = "user"
    /\ ~ENABLED Reset

IsOutputEntry(m) == m.role = "assistant" /\ m.step = "OUTPUT"

\* C15: a turn that starts on a fresh or reset session or after a turn that
\* ended normally puts its user message right after the system seed or after
\* the assistant entry of an OUTPUT step, and keeps every earlier entry: when
\* the model is invoked the transcript still starts with the whole transcript
\* the turn started on, which ends with the seed or an OUTPUT entry.
C15_TurnsChain ==
    /\ [][(pc \in {"IDLE", "CLEARED", "DONE"} /\ pc' = "AWAIT_MODEL")
            => /\ Len(messages') = Len(messages) + 1
               /\ IsPrefix(messages, messages')
               /\ Last(messages').role = "user"
               /\ (Last(messages) = SystemSeed
                      \/ IsOutputEntry(Last(messages)))
         ]_vars
    /\ [](pc \in {"IDLE", "CLEARED"} => messages = <<SystemSeed>>)
    /\ [](pc = "DONE" => IsOutputEntry(Last(messages)))
    /\ [][(InTurn /\ ~Reset)
            => IsPrefix(SubSeq(messages, 1, turnBase + 1), messages')]_vars

C15_Witness ==
    /\ pc = "AWAIT_MODEL"
    /\ turnBase = 3
    /\ messages[2].role = "user"
    /\ IsOutputEntry(messages[3])
    /\ messages[4].role = "user"
    /\ Len(steps) = 1

NumUserEntries ==
    Cardinality({i \in 1..Len(chat_history) : chat_history[i].role = "user"})

NumUserMessages ==
    Cardinality({i \in 1..Len(messages) : messages[i].role = "user"})

\* C16: in every state, after a reset or an aborted turn as well, the display
\* log has as many user entries as the transcript has user messages.
C16_UserEntriesMatch == NumUserEntries = NumUserMessages

C16_Witness ==
    /\ pc = "ABORTED"
    /\ error = "AttributeError"
    /\ NumUserMessages = 2
    /\ NumUserEntries = 2

====
